---- MODULE Spec2Model ----
(***************************************************************************)
(* Model of createEntityStore (clientdb/entity/store.ts): the registry of  *)
(* the entities of one definition, kept as an ordered list (items) and an  *)
(* id -> entity map (itemsMap), with memoized lookups, memoized queries,   *)
(* field indexes and an event channel.                                     *)
(*                                                                         *)
(* Entities are object references 1..NumEntities; 0 stands for null.  Two  *)
(* entities are the same object iff they are the same number.  Identities  *)
(* are the strings "1", "2", ..., written 1, 2, ...                        *)
(***************************************************************************)
EXTENDS Integers, Sequences, FiniteSets, TLC

\* ---------------------------------------------------------------- bounds
NumEntities == 3
NumIds == 2
NumGroups == 2
NumSubs == 2
MaxOps == 3
MaxDepth == 1
MaxQueries == 2
NumRefs == 2

Null == 0
Undefined == "undefined"

Entities == 1..NumEntities
Ids == 1..NumIds
Groups == 1..NumGroups
Subs == 1..NumSubs
Sources == {"user", "sync"}
SourceArgs == {Undefined} \cup Sources
TopSources == {Undefined, "sync"}

VARIABLES
    items,          \* items: the observable array of entities, in insertion order
    itemsMap,       \* itemsMap: the observable object id -> entity (Null: no such key)
    disposed,       \* per entity, how many times entity.cleanup.clean() has run
    observed,       \* per subscriber, the events its handler received during the last
                    \* add/removeById call made from outside a handler, in order
    issued,         \* number of add/removeById calls that changed the store so far
    hasValidator,   \* whether config.accessValidator is configured
    accessible,     \* per entity, the current verdict of config.accessValidator
    group,          \* per entity, the current value of its data field "group"
    fbValue,        \* findById memo: per id, the last computed result
    fbDirty,        \* findById memo: per id, whether state it read has changed since
    rootValue,      \* getRootSource memo: the content of the array it returns
    rootDirty,      \* getRootSource memo: whether state it read has changed since
    queries,        \* createOrReuseQuery memo: the keys (filter, sort) of the queries
                    \* created so far; the i-th query created is instance i
    qValue,         \* per query instance, its cached list
    qDirty,         \* per query instance, whether state it read has changed since
    queryIndexes,   \* queryIndexes: key -> index instance (Null: none yet)
    buckets,        \* per key, what the index of the key holds: the pairs
                    \* <<entity, value>> of an entity and the value it is indexed at
    indexFilters,   \* whether an index leaves the entities the validator rejects
                    \* out of what find returns, or leaves that to its caller
    ret,            \* the last add, removeById, findById or query call: operation,
                    \* arguments, result
    live,           \* observer: the entities added and not removed since
    latest,         \* observer: per id, the entity of the last itemAdded event not
                    \* followed by an itemRemoved event for that id (Null: none)
    cleaned         \* per derived structure, how many times its disposer has run:
                    \* cleanups (the store's cleanup object), indexes (per key),
                    \* events (the channel), queries (per instance), validator
                    \* (the cache of getIsEntityAccessable)

vars == <<items, itemsMap, disposed, observed, issued, hasValidator, accessible,
          group, fbValue, fbDirty, rootValue, rootDirty, queries, qValue, qDirty,
          queryIndexes, buckets, indexFilters, ret, live, latest, cleaned>>

\* ------------------------------------------------------------- sequences
InSeq(s, x) == \E i \in 1..Len(s) : s[i] = x

IndexOf(s, x) == IF InSeq(s, x) THEN CHOOSE i \in 1..Len(s) : s[i] = x /\ \A j \in 1..(i-1) : s[j] # x
                 ELSE 0

\* IObservableArray.remove(value): removes the first occurrence only
RemoveFirst(s, x) ==
    LET i == IndexOf(s, x)
    IN IF i = 0 THEN s
       ELSE [j \in 1..(Len(s)-1) |-> IF j < i THEN s[j] ELSE s[j+1]]

\* ------------------------------------------------------------- entities
\* The value of the key field of entity e: the first NumIds entities carry the
\* numbers 1, 2, ..., the next NumIds the strings "1", "2", ..., and so on; a
\* number and its decimal string coerce to the same identity.
KeyField(e) == [t |-> IF ((e - 1) \div NumIds) % 2 = 0 THEN "number" ELSE "string",
                v |-> ((e - 1) % NumIds) + 1]

\* `${value}`: the decimal string of a number, the string itself otherwise
ToStr(value) == value.v

getEntityId(entity) == ToStr(KeyField(entity))

\* what getIsEntityAccessable answers for an entity when a validator is configured
getIsEntityAccessable(acc, entity) == acc[entity]

\* the store's own state as one value at the start of a call made from outside
\* a handler, so that calls can be nested
Store == [items |-> items, itemsMap |-> itemsMap, disposed |-> disposed,
          observed |-> [k \in Subs |-> <<>>], issued |-> issued, depth |-> 0]

Event(kind, entity, source, n, depth) ==
    [kind |-> kind, entity |-> entity, source |-> source, n |-> n, depth |-> depth,
     inSeq |-> FALSE, inMap |-> FALSE]

\* ------------------------------------------------------- event channel
RECURSIVE add(_, _, _, _)
RECURSIVE removeById(_, _, _, _)
RECURSIVE emitFrom(_, _, _, _)

\* A handler calling back into the store while it handles event ev: it either
\* removes the identity the event is about or adds the next entity.
handlerCall(st, ev, op, plan) ==
    LET inner == [st EXCEPT !.depth = @ + 1]
        after == IF op = "add" THEN add(inner, (ev.entity % NumEntities) + 1, Undefined, plan).st
                 ELSE removeById(inner, getEntityId(ev.entity), Undefined, plan).st
    IN [after EXCEPT !.depth = st.depth]

\* Synchronous delivery to subscribers k, k+1, ... in subscription order.  Each
\* handler sees the store as it is when it runs; plan names the handlers that
\* call back into the store (Head(plan) during this emission).
emitFrom(st, ev, plan, k) ==
    IF k > NumSubs THEN st
    ELSE LET seen == [ev EXCEPT !.inSeq = InSeq(st.items, ev.entity),
                                !.inMap = (st.itemsMap[getEntityId(ev.entity)] = ev.entity)]
             st1 == [st EXCEPT !.observed[k] = Append(@, seen)]
             st2 == IF plan # <<>> /\ Head(plan).sub = k
                    THEN handlerCall(st1, ev, Head(plan).op, Tail(plan))
                    ELSE st1
         IN emitFrom(st2, ev, plan, k + 1)

emit(st, ev, plan) == emitFrom(st, ev, plan, 1)

\* ------------------------------------------------------------ the store
DefaultSource_asGiven(source) == source

DefaultSource(source) == IF source = Undefined THEN "user" ELSE source

add_noMap(st, entity, source, plan) ==
    LET st1 == [st EXCEPT !.items = Append(@, entity), !.issued = @ + 1]
    IN [st |-> emit(st1, Event("itemAdded", entity, DefaultSource(source), st1.issued, st.depth), plan),
        val |-> entity]

add(st, entity, source, plan) ==
    LET id == getEntityId(entity)
        st1 == [st EXCEPT !.items = Append(@, entity),
                          !.itemsMap[id] = entity,
                          !.issued = @ + 1]
    IN [st |-> emit(st1, Event("itemAdded", entity, DefaultSource(source), st1.issued, st.depth), plan),
        val |-> entity]

removeById_emitAlways(st, id, source, plan) ==
    LET entity == st.itemsMap[id]
        st1 == [st EXCEPT !.issued = @ + 1]
    IN IF entity = Null
       THEN [st |-> emit(st1, Event("itemRemoved", 1, DefaultSource(source), st1.issued, st.depth), plan),
             val |-> FALSE]
       ELSE LET st2 == [st EXCEPT !.disposed[entity] = @ + 1,
                                  !.items = RemoveFirst(@, entity),
                                  !.itemsMap[id] = Null,
                                  !.issued = @ + 1]
            IN [st |-> emit(st2, Event("itemRemoved", entity, DefaultSource(source), st2.issued, st.depth), plan),
                val |-> InSeq(st.items, entity)]

removeById(st, id, source, plan) ==
    LET entity == st.itemsMap[id]
    IN IF entity = Null THEN [st |-> st, val |-> FALSE]
       ELSE LET didRemove == InSeq(st.items, entity)
                st1 == [st EXCEPT !.disposed[entity] = @ + 1,
                                  !.items = RemoveFirst(@, entity),
                                  !.itemsMap[id] = Null,
                                  !.issued = @ + 1]
            IN [st |-> emit(st1, Event("itemRemoved", entity, DefaultSource(source), st1.issued, st.depth), plan),
                val |-> didRemove]

\* the function findById memoizes
findByIdBody(map, validator, acc, id) ==
    LET entity == map[id]
    IN IF entity = Null THEN Null
       ELSE IF validator /\ ~getIsEntityAccessable(acc, entity) THEN Null
       ELSE entity

findById_cachedOnly(id) == fbValue[id]

\* cachedComputed: the cached value while nothing it read has changed
findById(id) == IF fbDirty[id] THEN findByIdBody(itemsMap, hasValidator, accessible, id)
                ELSE fbValue[id]

\* ------------------------------------------------------ root collection
\* getSourceForQueryInput: the items the access validator accepts
getSourceForQueryInput_noValidator(its, validator, acc) == its

getSourceForQueryInput(its, validator, acc) ==
    LET Passes(entity) == getIsEntityAccessable(acc, entity)
    IN IF validator THEN SelectSeq(its, Passes) ELSE its

areArraysShallowEqual_sameObject(a, b) == FALSE

areArraysShallowEqual(a, b) == Len(a) = Len(b) /\ \A i \in 1..Len(a) : a[i] = b[i]

\* whether reading getRootSource now replaces the array it returned before.
\* Without a validator the function returns the items array itself, reads
\* nothing of it, and so is never run again: the array it returns is never
\* replaced.  With a validator it returns a new array, which replaces the one
\* before unless the two are shallow-equal.
rootReplaced ==
    /\ hasValidator
    /\ rootDirty
    /\ ~areArraysShallowEqual(getSourceForQueryInput(items, hasValidator, accessible), rootValue)

\* cachedComputed with equals: areArraysShallowEqual.  Without a validator
\* rootValue is the content of the items array, which add and removeById
\* change in place.
getRootSource == IF rootReplaced THEN getSourceForQueryInput(items, hasValidator, accessible)
                 ELSE rootValue

\* ---------------------------------------------------------------- queries
\* Filter and sort arguments are objects: ref tells two objects apart, the other
\* fields are their content.  A filter {group: g} keeps the entities whose group
\* is g; a sort orders by identity, ascending (1) or descending (-1).
NoArg == [ref |-> 0, kind |-> "undefined", on |-> 0]

FilterArgs == {NoArg} \cup [ref : 1..NumRefs, kind : {"filter"}, on : Groups]

SortArgs == {NoArg} \cup [ref : 1..NumRefs, kind : {"sort"}, on : {-1, 1}]

\* deepMemoize with checkEquality: arguments that are deeply equal are one key
StructurallyEqual(a, b) == a.kind = b.kind /\ a.on = b.on

memoKey_byReference(filter, sort) == <<filter, sort>>

memoKey(filter, sort) == <<[filter EXCEPT !.ref = 0], [sort EXCEPT !.ref = 0]>>

QueryOf(key) == IF \E i \in 1..Len(queries) : queries[i] = key
                THEN CHOOSE i \in 1..Len(queries) : queries[i] = key
                ELSE Null

\* the list a query computes from the root collection: filter, then sort
RECURSIVE InsertByKey(_, _, _)
InsertByKey(sorted, e, keyOf) ==
    IF sorted = <<>> THEN <<e>>
    ELSE IF keyOf[Head(sorted)] <= keyOf[e] THEN <<Head(sorted)>> \o InsertByKey(Tail(sorted), e, keyOf)
    ELSE <<e>> \o sorted

\* a stable sort by ascending key
RECURSIVE SortBy(_, _)
SortBy(list, keyOf) ==
    IF list = <<>> THEN <<>>
    ELSE InsertByKey(SortBy(SubSeq(list, 1, Len(list) - 1), keyOf), list[Len(list)], keyOf)

queryAllBody(root, key, grp) ==
    LET filter == key[1]
        sort == key[2]
        Passes(entity) == filter.kind = "undefined" \/ grp[entity] = filter.on
        keyOf == [entity \in Entities |-> sort.on * getEntityId(entity)]
        passing == SelectSeq(root, Passes)
    IN IF sort.kind = "undefined" THEN passing ELSE SortBy(passing, keyOf)

\* query.all: recomputed when the root collection was replaced or a field the
\* query read has changed, the cached list otherwise
queryAll(i) == IF qDirty[i] \/ rootReplaced THEN queryAllBody(getRootSource, queries[i], group)
               ELSE qValue[i]

\* query.first: the first entity of the query's list, null when it is empty
queryFirst(all) == IF Len(all) = 0 THEN Null ELSE all[1]

\* what store.findFirst(filter) returns: store.query(filter).first
findFirst(filter) == queryFirst(queryAllBody(getRootSource, memoKey(filter, NoArg), group))

\* ---------------------------------------------------------------- indexes
IndexKeys == {"group", "key"}

FieldValue(entity, key) == IF key = "group" THEN group[entity] ELSE KeyField(entity)

FieldValues(key) == IF key = "group" THEN Groups ELSE {KeyField(e) : e \in Entities}

RECURSIVE Distinct(_)
Distinct(list) ==
    IF list = <<>> THEN <<>>
    ELSE LET front == Distinct(SubSeq(list, 1, Len(list) - 1))
         IN IF InSeq(front, list[Len(list)]) THEN front ELSE Append(front, list[Len(list)])

\* An index is made from its key and the store alone (createQueryFieldIndex(key,
\* store)): of the store's members it has items and events, and neither
\* getRootSource nor getIsEntityAccessable.  It keeps, per value, the set of
\* the entities indexed at that value, here as pairs <<entity, value>>.

\* on an entity's removal: the entity leaves the bucket it is in
bucketRemove(bucket, entity) == {pair \in bucket : pair[1] # entity}

\* on an entity's add: the entity enters the bucket of its value
bucketInsert(bucket, entity, value) == bucketRemove(bucket, entity) \cup {<<entity, value>>}

\* on a field-value change of an entity already indexed: from the old bucket
\* to the new one
bucketMove(bucket, entity, value) ==
    IF \E pair \in bucket : pair[1] = entity THEN bucketInsert(bucket, entity, value)
    ELSE bucket

\* a new index holds the entities the store holds when it is made
createQueryFieldIndex(key) == {<<items[i], FieldValue(items[i], key)>> : i \in 1..Len(items)}

\* an index follows the itemAdded and itemRemoved events in the order in which
\* the first subscriber receives them
RECURSIVE FoldBucket(_, _, _)
FoldBucket(log, bucket, key) ==
    IF log = <<>> THEN bucket
    ELSE FoldBucket(Tail(log),
                    IF Head(log).kind = "itemAdded"
                    THEN bucketInsert(bucket, Head(log).entity, FieldValue(Head(log).entity, key))
                    ELSE bucketRemove(bucket, Head(log).entity),
                    key)

\* what the index that getKeyIndex(key) gives holds: the one made before, or a
\* new one
getKeyIndex(key) == IF queryIndexes[key] # Null THEN buckets[key] ELSE createQueryFieldIndex(key)

\* index.find(value): the entities of the value's bucket, in the order in which
\* the store's items hold them.  The spec has find return accessible entities
\* only; the store checks the first match against the validator itself
\* (findByUniqueIndex), and the index has no validator cache to ask:
\* indexFilters covers both.
indexFind(key, value) ==
    LET Holds(entity) ==
            /\ <<entity, value>> \in getKeyIndex(key)
            /\ indexFilters => accessible[entity]
    IN SelectSeq(Distinct(items), Holds)

findByUniqueIndex(key, value) ==
    LET results == indexFind(key, value)
        warned == Len(results) > 1
    IN IF Len(results) = 0 THEN [val |-> Null, warned |-> FALSE]
       ELSE IF hasValidator /\ ~getIsEntityAccessable(accessible, results[1])
            THEN [val |-> Null, warned |-> warned]
            ELSE [val |-> results[1], warned |-> warned]

\* ---------------------------------------------------------- assert*
\* assert(value, error): raises when value is null, returns otherwise
assertFindById_noRaise(id) == [raised |-> FALSE, val |-> findById(id)]

assertFindById(id) ==
    LET item == findById(id)
    IN IF item = Null THEN [raised |-> TRUE, val |-> Null]
       ELSE [raised |-> FALSE, val |-> item]

assertFindByUniqueIndex(key, value) ==
    LET entity == findByUniqueIndex(key, value).val
    IN IF entity = Null THEN [raised |-> TRUE, val |-> Null]
       ELSE [raised |-> FALSE, val |-> entity]

\* ------------------------------------------------------------ inputs
\* what a handler may call while it handles an event
HandlerOps == {"add", "removeById"}

Reentries == [sub : Subs, op : HandlerOps]

RECURSIVE PlansUpTo(_)
PlansUpTo(n) == IF n <= 0 THEN {<<>>}
                ELSE LET shorter == PlansUpTo(n - 1)
                     IN shorter \cup {<<r>> \o p : r \in Reentries, p \in {q \in shorter : Len(q) = n - 1}}

Min(a, b) == IF a < b THEN a ELSE b

\* the nested calls a top-level call may set off, within the bound on calls
Plans == PlansUpTo(Min(MaxDepth, MaxOps - issued - 1))

Result(op, arg, source, plan, val, warned) ==
    [op |-> op, arg |-> arg, source |-> source, plan |-> plan, val |-> val, warned |-> warned]

\* ------------------------------------------------------------- memos
\* The reactive substrate marks a memo stale when state it read changes; the
\* value of a stale memo is never read again and is dropped here.  With a
\* validator getRootSource reads the items and the validator's answers, and a
\* query reads the array getRootSource made; without one getRootSource reads
\* nothing and a query reads the items array itself.  A query with a filter
\* reads the group of every entity of the root collection it was computed
\* from, which is rootValue while the query is not stale; a query without one
\* reads no field that changes (it sorts by identity).
Invalidate(newItems, newMap, newAcc, newGroup) ==
    /\ fbDirty' = [id \in Ids |-> fbDirty[id] \/ newMap[id] # itemsMap[id] \/ newAcc # accessible]
    /\ rootDirty' = (rootDirty \/ (hasValidator /\ (newItems # items \/ newAcc # accessible)))
    /\ qDirty' = [i \in DOMAIN qDirty |->
                     \/ qDirty[i]
                     \/ ~hasValidator /\ newItems # items
                     \/ /\ queries[i][1].kind = "filter"
                        /\ \E k \in 1..Len(rootValue) : newGroup[rootValue[k]] # group[rootValue[k]]]
    /\ fbValue' = [id \in Ids |-> IF fbDirty'[id] THEN Null ELSE fbValue[id]]
    /\ qValue' = [i \in DOMAIN qValue |-> IF qDirty'[i] THEN <<>> ELSE qValue[i]]

\* The observers follow the events the first subscriber received, which it
\* receives in the order the calls were made.
RECURSIVE FoldLive(_, _)
FoldLive(log, lv) ==
    IF log = <<>> THEN lv
    ELSE FoldLive(Tail(log), IF Head(log).kind = "itemAdded" THEN lv \cup {Head(log).entity}
                             ELSE lv \ {Head(log).entity})

RECURSIVE FoldLatest(_, _)
FoldLatest(log, lt) ==
    IF log = <<>> THEN lt
    ELSE FoldLatest(Tail(log),
                    [lt EXCEPT ![getEntityId(Head(log).entity)] =
                        IF Head(log).kind = "itemAdded" THEN Head(log).entity ELSE Null])

Commit(st) ==
    /\ live' = FoldLive(st.observed[1], live)
    /\ latest' = FoldLatest(st.observed[1], latest)
    /\ items' = st.items
    /\ itemsMap' = st.itemsMap
    /\ disposed' = st.disposed
    /\ observed' = st.observed
    /\ issued' = st.issued
    /\ rootValue' = IF hasValidator THEN rootValue ELSE st.items
    /\ buckets' = [key \in IndexKeys |->
                      IF queryIndexes[key] # Null THEN FoldBucket(st.observed[1], buckets[key], key)
                      ELSE buckets[key]]
    /\ Invalidate(st.items, st.itemsMap, accessible, group)

\* ------------------------------------------------------------ actions
Init ==
    /\ items = <<>>
    /\ itemsMap = [id \in Ids |-> Null]
    /\ disposed = [e \in Entities |-> 0]
    /\ observed = [k \in Subs |-> <<>>]
    /\ issued = 0
    /\ hasValidator \in BOOLEAN
    /\ accessible = [e \in Entities |-> TRUE]
    /\ group = [e \in Entities |-> 1]
    /\ fbValue = [id \in Ids |-> Null]
    /\ fbDirty = [id \in Ids |-> TRUE]
    /\ rootValue = <<>>
    /\ rootDirty = TRUE
    /\ queries = <<>>
    /\ qValue = <<>>
    /\ qDirty = <<>>
    /\ queryIndexes = [key \in IndexKeys |-> Null]
    /\ buckets = [key \in IndexKeys |-> {}]
    /\ indexFilters \in (IF hasValidator THEN BOOLEAN ELSE {FALSE})
    /\ ret = Result("none", Null, Undefined, <<>>, Null, FALSE)
    /\ live = {}
    /\ latest = [id \in Ids |-> Null]
    /\ cleaned = [cleanups |-> 0, indexes |-> [key \in IndexKeys |-> 0], events |-> 0,
                  queries |-> [i \in 1..MaxQueries |-> 0], validator |-> 0]

\* a store on which no index is made: how an index reads plays no part
InitStore == Init /\ ~indexFilters

\* store.add(entity, source), with the handlers' nested calls
Add(entity, source, plan) ==
    /\ issued < MaxOps
    /\ LET r == add(Store, entity, source, plan)
       IN /\ Commit(r.st)
          /\ ret' = Result("add", entity, source, plan, r.val, FALSE)
    /\ UNCHANGED <<hasValidator, indexFilters, accessible, group, queries, queryIndexes, cleaned>>

\* store.removeById(id, source), with the handlers' nested calls
RemoveById(id, source, plan) ==
    /\ issued < MaxOps
    /\ LET r == removeById(Store, id, source, plan)
       IN /\ Commit(r.st)
          /\ ret' = Result("removeById", id, source, plan, r.val, FALSE)
    /\ UNCHANGED <<hasValidator, indexFilters, accessible, group, queries, queryIndexes, cleaned>>

\* store.findById(id)
FindById(id) ==
    /\ ret' = Result("findById", id, Undefined, <<>>, findById(id), FALSE)
    /\ fbValue' = [fbValue EXCEPT ![id] = findById(id)]
    /\ fbDirty' = [fbDirty EXCEPT ![id] = FALSE]
    /\ UNCHANGED <<items, itemsMap, disposed, observed, issued, hasValidator, indexFilters, accessible,
                   group, rootValue, rootDirty, queries, qValue, qDirty, queryIndexes, buckets,
                   live, latest, cleaned>>

\* the state the access validator reads changes its verdict on a stored entity
SetAccess(entity) ==
    /\ hasValidator
    /\ InSeq(items, entity)
    /\ accessible' = [accessible EXCEPT ![entity] = ~@]
    /\ Invalidate(items, itemsMap, accessible', group)
    /\ UNCHANGED <<items, itemsMap, disposed, observed, issued, hasValidator, indexFilters, group,
                   rootValue, queries, queryIndexes, buckets, ret, live, latest, cleaned>>

\* reading getRootSource refreshes its memo and marks the queries that read it
RefreshRoot(reader) ==
    /\ rootValue' = getRootSource
    /\ rootDirty' = FALSE
    /\ qDirty' = [i \in DOMAIN qDirty |-> IF i = reader THEN FALSE ELSE qDirty[i] \/ rootReplaced]
    /\ qValue' = [i \in DOMAIN qValue |-> IF i = reader THEN queryAll(i)
                                          ELSE IF qDirty'[i] THEN <<>> ELSE qValue[i]]

\* store.query(filter, sort); store.sort(sort) is the call with no filter.  The
\* caller may keep the query it is given (keep) or use it and drop it.
Query(filter, sort, keep) ==
    LET key == memoKey(filter, sort)
        existing == QueryOf(key)
    IN /\ existing = Null => Len(queries) < MaxQueries
       /\ queries' = IF existing = Null THEN Append(queries, key) ELSE queries
       /\ qValue' = IF existing = Null THEN Append(qValue, <<>>) ELSE qValue
       /\ qDirty' = IF existing = Null THEN Append(qDirty, TRUE) ELSE qDirty
       /\ LET query == IF existing = Null THEN Len(queries) + 1 ELSE existing
          IN ret' = IF keep
                    THEN Result("query", <<filter, sort>>, Undefined, <<>>, query, FALSE)
                    ELSE ret
       /\ UNCHANGED <<items, itemsMap, disposed, observed, issued, hasValidator, indexFilters, accessible,
                      group, fbValue, fbDirty, rootValue, rootDirty, queryIndexes, buckets, live, latest, cleaned>>

\* query.all of the i-th query created
QueryAll(i) ==
    /\ RefreshRoot(i)
    /\ UNCHANGED <<items, itemsMap, disposed, observed, issued, hasValidator, indexFilters, accessible,
                   group, fbValue, fbDirty, queries, queryIndexes, buckets, ret, live, latest, cleaned>>

\* entity.update: a stored entity's group field changes
UpdateField(entity, value) ==
    /\ InSeq(items, entity)
    /\ group[entity] # value
    /\ group' = [group EXCEPT ![entity] = value]
    /\ Invalidate(items, itemsMap, accessible, group')
    /\ buckets' = [key \in IndexKeys |->
                      IF key = "group" /\ queryIndexes[key] # Null
                      THEN bucketMove(buckets[key], entity, value)
                      ELSE buckets[key]]
    /\ UNCHANGED <<items, itemsMap, disposed, observed, issued, hasValidator, indexFilters, accessible,
                   rootValue, queries, queryIndexes, ret, live, latest, cleaned>>

GetKeyIndex_alwaysNew(key) ==
    /\ queryIndexes' = [queryIndexes EXCEPT ![key] = Cardinality({k \in IndexKeys : queryIndexes[k] # Null}) + 1]
    /\ buckets' = [buckets EXCEPT ![key] = createQueryFieldIndex(key)]
    /\ UNCHANGED <<items, itemsMap, disposed, observed, issued, hasValidator, indexFilters, accessible,
                   group, fbValue, fbDirty, rootValue, rootDirty, queries, qValue, qDirty,
                   ret, live, latest, cleaned>>

\* store.getKeyIndex(key)
GetKeyIndex(key) ==
    /\ queryIndexes' = IF queryIndexes[key] # Null THEN queryIndexes
                       ELSE [queryIndexes EXCEPT ![key] = Cardinality({k \in IndexKeys : queryIndexes[k] # Null}) + 1]
    /\ buckets' = [buckets EXCEPT ![key] = getKeyIndex(key)]
    /\ UNCHANGED <<items, itemsMap, disposed, observed, issued, hasValidator, indexFilters, accessible,
                   group, fbValue, fbDirty, rootValue, rootDirty, queries, qValue, qDirty,
                   ret, live, latest, cleaned>>

\* store.getKeyIndex(key).find(value): the caller is given what the index
\* holds, recorded with the number of matches in place of the diagnostic
IndexFind(key, value) ==
    /\ queryIndexes[key] # Null
    /\ ret' = Result("index.find", <<key, value>>, Undefined, <<>>, indexFind(key, value),
                     Len(indexFind(key, value)) > 1)
    /\ UNCHANGED <<items, itemsMap, disposed, observed, issued, hasValidator, indexFilters, accessible,
                   group, fbValue, fbDirty, rootValue, rootDirty, queries, qValue, qDirty,
                   queryIndexes, buckets, live, latest, cleaned>>

\* store.findByUniqueIndex(key, value), which asks getKeyIndex for the index
\* and reads it; neither touches getRootSource or the queries
FindByUniqueIndex(key, value) ==
    /\ queryIndexes' = IF queryIndexes[key] # Null THEN queryIndexes
                       ELSE [queryIndexes EXCEPT ![key] = Cardinality({k \in IndexKeys : queryIndexes[k] # Null}) + 1]
    /\ buckets' = [buckets EXCEPT ![key] = getKeyIndex(key)]
    /\ UNCHANGED <<items, itemsMap, disposed, observed, issued, hasValidator, indexFilters, accessible,
                   group, fbValue, fbDirty, rootValue, rootDirty, queries, qValue, qDirty,
                   ret, live, latest, cleaned>>

\* store.assertFindById(id, error): its store.findById(id) call refreshes the
\* memo; the call then returns or raises to its caller (assertFindById)
AssertFindById(id) ==
    /\ fbValue' = [fbValue EXCEPT ![id] = findById(id)]
    /\ fbDirty' = [fbDirty EXCEPT ![id] = FALSE]
    /\ UNCHANGED <<items, itemsMap, disposed, observed, issued, hasValidator, indexFilters, accessible,
                   group, rootValue, rootDirty, queries, qValue, qDirty, queryIndexes, buckets,
                   ret, live, latest, cleaned>>

\* store.assertFindByUniqueIndex(key, value): its store.findByUniqueIndex call
\* creates the index and reads it; the call then returns or raises to its
\* caller (assertFindByUniqueIndex)
AssertFindByUniqueIndex(key, value) ==
    /\ queryIndexes' = IF queryIndexes[key] # Null THEN queryIndexes
                       ELSE [queryIndexes EXCEPT ![key] = Cardinality({k \in IndexKeys : queryIndexes[k] # Null}) + 1]
    /\ buckets' = [buckets EXCEPT ![key] = getKeyIndex(key)]
    /\ UNCHANGED <<items, itemsMap, disposed, observed, issued, hasValidator, indexFilters, accessible,
                   group, fbValue, fbDirty, rootValue, rootDirty, queries, qValue, qDirty,
                   ret, live, latest, cleaned>>

\* store.find(filter): store.query(filter).all
Find(filter) ==
    LET key == memoKey(filter, NoArg)
        existing == QueryOf(key)
        query == IF existing = Null THEN Len(queries) + 1 ELSE existing
        all == IF existing = Null THEN queryAllBody(getRootSource, key, group) ELSE queryAll(existing)
    IN /\ existing = Null => Len(queries) < MaxQueries
       /\ queries' = IF existing = Null THEN Append(queries, key) ELSE queries
       /\ rootValue' = getRootSource
       /\ rootDirty' = FALSE
       /\ qDirty' = [i \in 1..Len(queries') |->
                        IF i = query THEN FALSE ELSE qDirty[i] \/ rootReplaced]
       /\ qValue' = [i \in 1..Len(queries') |->
                        IF i = query THEN all ELSE IF qDirty'[i] THEN <<>> ELSE qValue[i]]
       /\ UNCHANGED <<items, itemsMap, disposed, observed, issued, hasValidator, indexFilters, accessible,
                      group, fbValue, fbDirty, queryIndexes, buckets, ret, live, latest, cleaned>>

\* store.findFirst(filter): store.query(filter).first.  The query is made or
\* reused as in find; first reads the query's one cached list and the call
\* returns its first entity or null (findFirst)
FindFirst(filter) ==
    LET key == memoKey(filter, NoArg)
        existing == QueryOf(key)
        query == IF existing = Null THEN Len(queries) + 1 ELSE existing
        all == IF existing = Null THEN queryAllBody(getRootSource, key, group) ELSE queryAll(existing)
    IN /\ existing = Null => Len(queries) < MaxQueries
       /\ queries' = IF existing = Null THEN Append(queries, key) ELSE queries
       /\ rootValue' = getRootSource
       /\ rootDirty' = FALSE
       /\ qDirty' = [i \in 1..Len(queries') |->
                        IF i = query THEN FALSE ELSE qDirty[i] \/ rootReplaced]
       /\ qValue' = [i \in 1..Len(queries') |->
                        IF i = query THEN all ELSE IF qDirty'[i] THEN <<>> ELSE qValue[i]]
       /\ UNCHANGED <<items, itemsMap, disposed, observed, issued, hasValidator, indexFilters, accessible,
                      group, fbValue, fbDirty, queryIndexes, buckets, ret, live, latest, cleaned>>

\* store.destroy(): runs the cleanup object, to which the store registers
\* nothing, then destroys every index in queryIndexes, then the event channel
Destroy ==
    /\ cleaned' = [cleaned EXCEPT
                      !.cleanups = @ + 1,
                      !.indexes = [key \in IndexKeys |->
                                      IF queryIndexes[key] # Null THEN @[key] + 1 ELSE @[key]],
                      !.events = @ + 1]
    /\ UNCHANGED <<items, itemsMap, disposed, observed, issued, hasValidator, indexFilters, accessible,
                   group, fbValue, fbDirty, rootValue, rootDirty, queries, qValue, qDirty,
                   queryIndexes, buckets, ret, live, latest>>

\* whether store.destroy() has been called
Destroyed == cleaned.cleanups > 0

\* calls made from outside any handler, by callers whose handlers make no calls
Next ==
    \/ \E e \in Entities, s \in TopSources : Add(e, s, <<>>)
    \/ \E id \in Ids, s \in TopSources : RemoveById(id, s, <<>>)
    \/ \E id \in Ids : FindById(id)
    \/ \E e \in Entities : SetAccess(e)

Spec == InitStore /\ [][Next]_vars

\* calls whose handlers call back into the store
NextEvents ==
    \/ \E e \in Entities, p \in Plans : Add(e, Undefined, p)
    \/ \E id \in Ids, p \in Plans : RemoveById(id, Undefined, p)

SpecEvents == InitStore /\ [][NextEvents]_vars

\* the store read through queries made with a filter and a sort
NextQuery ==
    \/ \E e \in Entities : Add(e, Undefined, <<>>)
    \/ \E id \in Ids : RemoveById(id, Undefined, <<>>)
    \/ \E e \in Entities : SetAccess(e)
    \/ \E e \in Entities, g \in Groups : UpdateField(e, g)
    \/ \E f \in FilterArgs, s \in SortArgs : f.ref = 1 /\ s.ref = 1 /\ Query(f, s, FALSE)
    \/ \E i \in 1..Len(queries) : QueryAll(i)

SpecQuery == InitStore /\ [][NextQuery]_vars

\* the memo of queries, with arguments that are equal but not the same object
NextMemo ==
    \/ Add(1, Undefined, <<>>)
    \/ RemoveById(getEntityId(1), Undefined, <<>>)
    \/ \E f \in FilterArgs, s \in SortArgs : s.on >= 0 /\ Query(f, s, TRUE)

SpecMemo == InitStore /\ [][NextMemo]_vars

\* the store read through field indexes
NextIndex ==
    \/ \E e \in Entities : Add(e, Undefined, <<>>)
    \/ \E id \in Ids : RemoveById(id, Undefined, <<>>)
    \/ \E e \in Entities : SetAccess(e)
    \/ \E e \in Entities, g \in Groups : UpdateField(e, g)
    \/ \E key \in IndexKeys : GetKeyIndex(key)
    \/ \E key \in IndexKeys : \E v \in FieldValues(key) : IndexFind(key, v)
    \/ \E key \in IndexKeys : \E v \in FieldValues(key) : FindByUniqueIndex(key, v)

SpecIndex == Init /\ [][NextIndex]_vars

\* the lookups and their assert* variants
NextLookup ==
    \/ \E e \in Entities : Add(e, Undefined, <<>>)
    \/ \E id \in Ids : RemoveById(id, Undefined, <<>>)
    \/ \E e \in Entities : SetAccess(e)
    \/ \E id \in Ids : AssertFindById(id)
    \/ \E v \in FieldValues("key") : FindByUniqueIndex("key", v)
    \/ \E v \in FieldValues("key") : AssertFindByUniqueIndex("key", v)
    \/ Find(NoArg)
    \/ FindFirst(NoArg)

SpecLookup == Init /\ [][NextLookup]_vars

\* the life of a store up to its one destroy() call
NextDestroy ==
    \/ \E e \in Entities : ~Destroyed /\ Add(e, Undefined, <<>>)
    \/ \E id \in Ids : ~Destroyed /\ RemoveById(id, Undefined, <<>>)
    \/ \E key \in IndexKeys : ~Destroyed /\ GetKeyIndex(key)
    \/ \E f \in FilterArgs : ~Destroyed /\ f.ref <= 1 /\ Query(f, NoArg, FALSE)
    \/ ~Destroyed /\ Destroy

SpecDestroy == Init /\ [][NextDestroy]_vars

\* the root collection and the queries that read it
NextRoot ==
    \/ \E e \in Entities : Add(e, Undefined, <<>>)
    \/ \E id \in Ids : RemoveById(id, Undefined, <<>>)
    \/ \E e \in Entities : SetAccess(e)
    \/ \E e \in Entities, g \in Groups : UpdateField(e, g)
    \/ \E f \in FilterArgs : f.ref <= 1 /\ Query(f, NoArg, FALSE)
    \/ \E i \in 1..Len(queries) : QueryAll(i)
    \/ \E f \in FilterArgs : f.ref <= 1 /\ Find(f)
    \/ \E f \in FilterArgs : f.ref <= 1 /\ FindFirst(f)

SpecRoot == InitStore /\ [][NextRoot]_vars

\* ================================================================ claims
Accepted(e) == ~hasValidator \/ accessible[e]

EventsOf(log) == {log[i] : i \in 1..Len(log)}

\* C1 as stated: every entity added and not yet removed is what findById
\* returns for its identity.
C1_FindByIdReturnsAdded ==
    \A e \in live : findById(getEntityId(e)) = e

\* C1 amended: findById(id) returns the entity most recently added under id and
\* not removed since, when the access validator (if any) accepts it, and null
\* otherwise; so for an added entity E it returns E while E is that entity and
\* is accepted, null while E is that entity and is rejected.
C1_FindByIdReturnsLatestAccepted ==
    \A id \in Ids :
        findById(id) = IF latest[id] # Null /\ Accepted(latest[id]) THEN latest[id] ELSE Null

C1_Witness ==
    /\ ret.op = "findById"
    /\ ret.val # Null
    /\ ret.val \in live
    /\ latest[ret.arg] = ret.val
    /\ issued >= 2
    /\ hasValidator

\* C2 as stated: removeById of a present identity returns true, runs the
\* entity's disposer, leaves the entity in neither the sequence nor the map,
\* emits exactly one itemRemoved with the entity and the source (default
\* "user"), and findById of the identity is null afterwards.
C2_RemovePresent ==
    [][\A id \in Ids, s \in TopSources :
        (RemoveById(id, s, <<>>) /\ itemsMap[id] # Null) =>
            LET e == itemsMap[id]
            IN /\ ret'.val = TRUE
               /\ disposed'[e] = disposed[e] + 1
               /\ ~InSeq(items', e)
               /\ itemsMap'[id] = Null
               /\ \A k \in Subs :
                    /\ Len(observed'[k]) = 1
                    /\ observed'[k][1].kind = "itemRemoved"
                    /\ observed'[k][1].entity = e
                    /\ observed'[k][1].source = DefaultSource(s)
               /\ findById(id)' = Null]_vars

\* C3: removeById of an identity the map does not hold returns false, emits no
\* event, runs no disposer and leaves the sequence and the map as they were.
C3_RemoveAbsent ==
    [][\A id \in Ids, s \in TopSources :
        (RemoveById(id, s, <<>>) /\ itemsMap[id] = Null) =>
            /\ ret'.val = FALSE
            /\ \A k \in Subs : observed'[k] = <<>>
            /\ disposed' = disposed
            /\ items' = items
            /\ itemsMap' = itemsMap]_vars

C3_Witness ==
    /\ ret.op = "removeById"
    /\ ret.val = FALSE
    /\ itemsMap[ret.arg] = Null
    /\ items # <<>>
    /\ \A k \in Subs : observed[k] = <<>>

\* C4 as stated: the identities of the entities in the sequence are exactly the
\* keys of the identity map.
C4_SequenceIdsAreMapKeys ==
    {getEntityId(items[i]) : i \in 1..Len(items)} = {id \in Ids : itemsMap[id] # Null}

\* C9 as stated: every subscriber receives the events in the order in which the
\* calls that caused them were made.
C9_EventsInIssueOrder ==
    \A k \in Subs : \A i, j \in 1..Len(observed[k]) :
        i < j => observed[k][i].n < observed[k][j].n

\* C10 as stated: a handler that runs for itemAdded finds the entity in the
\* sequence and in the map, one that runs for itemRemoved finds it in neither.
C10_HandlersSeeWholeUpdate ==
    \A k \in Subs : \A ev \in EventsOf(observed[k]) :
        /\ ev.kind = "itemAdded" => (ev.inSeq /\ ev.inMap)
        /\ ev.kind = "itemRemoved" => (~ev.inSeq /\ ~ev.inMap)

Count(list, e) == Cardinality({i \in 1..Len(list) : list[i] = e})

Stored == {items[i] : i \in 1..Len(items)}

\* C5: what query(P, S).all returns now is the entities of the sequence that
\* satisfy P and that the access validator (if any) accepts, each as often as
\* the sequence holds it, in the order of S.
C5_QueryAllIsSortedFilterOfStore ==
    \A i \in 1..Len(queries) :
        LET all == queryAll(i)
            P == queries[i][1]
            S == queries[i][2]
        IN /\ \A e \in Entities :
                Count(all, e) = IF group[e] = P.on /\ Accepted(e) THEN Count(items, e) ELSE 0
           /\ \A a, b \in 1..Len(all) :
                a < b => S.on * getEntityId(all[a]) <= S.on * getEntityId(all[b])

C5_Witness ==
    \E i \in 1..Len(queries) :
        /\ ~qDirty[i] /\ ~rootDirty
        /\ Len(qValue[i]) >= 2
        /\ IndexOf(items, qValue[i][1]) > IndexOf(items, qValue[i][2])
        /\ Len(items) > Len(qValue[i])
        /\ issued = MaxOps

\* C6: two query()/sort() calls return the same query exactly when their filter
\* arguments are structurally equal and their sort arguments are: the query a
\* call returns is the j-th query made exactly when the call's arguments are
\* structurally equal to those of the call that made the j-th query.
C6_SameQueryIffStructurallyEqual ==
    ret.op = "query" =>
        \A j \in 1..Len(queries) :
            (StructurallyEqual(ret.arg[1], queries[j][1]) /\ StructurallyEqual(ret.arg[2], queries[j][2]))
                <=> ret.val = j

C6_Witness ==
    /\ ret.op = "query"
    /\ ret.arg[1].kind = "filter"
    /\ ret.arg[1].ref # queries[ret.val][1].ref
    /\ ret.arg[2].ref # queries[ret.val][2].ref
    /\ ret.val < Len(queries)
    /\ Len(queries) = MaxQueries
    /\ items # <<>>

Removed == {e \in Entities : disposed[e] > 0 /\ e \notin live}

\* C7 as stated: for every indexed field, getKeyIndex(key).find of an entity's
\* current value contains the entity, for every entity in the store; and no
\* find contains an entity that has been removed.
C7_IndexHoldsEveryStoredEntity ==
    \A key \in IndexKeys :
        /\ \A e \in Stored : InSeq(indexFind(key, FieldValue(e, key)), e)
        /\ \A e \in Removed : \A v \in FieldValues(key) : ~InSeq(indexFind(key, v), e)

\* C8 as stated: findByUniqueIndex(key, v) returns null when no entity of the
\* store holds v; the entity when exactly one holds v, or null when the
\* validator rejects it; and when more than one holds v it records a diagnostic
\* and returns the first of them in the store's order, or null when the
\* validator rejects that one.
C8_FindByUniqueIndex ==
    \A key \in IndexKeys : \A v \in FieldValues(key) :
        LET r == findByUniqueIndex(key, v)
            holders == {e \in Stored : FieldValue(e, key) = v}
        IN /\ holders = {} => (r.val = Null /\ ~r.warned)
           /\ \A e \in holders :
                holders = {e} => (r.val = (IF Accepted(e) THEN e ELSE Null) /\ ~r.warned)
           /\ Cardinality(holders) > 1 =>
                LET first == CHOOSE e \in holders :
                                 \A o \in holders : IndexOf(items, e) <= IndexOf(items, o)
                IN r.warned /\ r.val = (IF Accepted(first) THEN first ELSE Null)

\* C11: assertFindById(id) raises NotFound exactly when findById(id) returns
\* null and otherwise returns what findById(id) returns; assertFindByUniqueIndex
\* likewise against findByUniqueIndex; findById, find (and findFirst) and
\* findByUniqueIndex always return an entity, a list of entities or null; and
\* no lookup, plain or assert* (which makes the plain lookup's call), changes
\* the sequence or the map.
C11_AssertRaisesIffLookupNull ==
    [][/\ \A id \in Ids :
            LET r == assertFindById(id)
            IN /\ r.raised <=> findById(id) = Null
               /\ ~r.raised => r.val = findById(id)
               /\ findById(id) \in Entities \cup {Null}
       /\ \A key \in IndexKeys : \A v \in FieldValues(key) :
            LET r == assertFindByUniqueIndex(key, v)
            IN /\ r.raised <=> findByUniqueIndex(key, v).val = Null
               /\ ~r.raised => r.val = findByUniqueIndex(key, v).val
               /\ findByUniqueIndex(key, v).val \in Entities \cup {Null}
       /\ \A f \in FilterArgs :
            /\ queryAllBody(getRootSource, memoKey(f, NoArg), group) \in Seq(Entities)
            /\ findFirst(f) \in Entities \cup {Null}
       /\ ( \/ \E id \in Ids : AssertFindById(id)
            \/ \E key \in IndexKeys : \E v \in FieldValues(key) :
                    FindByUniqueIndex(key, v) \/ AssertFindByUniqueIndex(key, v)
            \/ \E f \in FilterArgs : Find(f) \/ FindFirst(f) )
          => (items' = items /\ itemsMap' = itemsMap)]_vars

C11_Witness ==
    /\ \E id \in Ids :
          /\ ~fbDirty[id]
          /\ itemsMap[id] # Null
          /\ assertFindById(id).raised
    /\ \E id \in Ids : ~fbDirty[id] /\ assertFindById(id).val \in Stored
    /\ queryIndexes["key"] # Null
    /\ ~rootDirty
    /\ hasValidator
    /\ \E e \in Stored : assertFindByUniqueIndex("key", KeyField(e)).raised
    /\ \E e \in Stored : assertFindByUniqueIndex("key", KeyField(e)).val = e
    /\ queries # <<>>

\* C12 as stated: once destroy() has run, the disposer of every index made by
\* getKeyIndex, of every query made by query/sort, of the access validator's
\* cache (when a validator is configured) and of the event channel has run
\* exactly once.
C12_DestroyDisposesEveryStructure ==
    Destroyed =>
        /\ \A key \in IndexKeys : queryIndexes[key] # Null => cleaned.indexes[key] = 1
        /\ \A i \in 1..Len(queries) : cleaned.queries[i] = 1
        /\ hasValidator => cleaned.validator = 1
        /\ cleaned.events = 1

\* C13 as stated: once destroy() has run, every entity that was in the store
\* has had its disposer run and is in neither the sequence, nor the map, nor
\* any index.
C13_DestroyDestroysEntities ==
    Destroyed =>
        /\ \A e \in live : disposed[e] > 0
        /\ items = <<>>
        /\ \A id \in Ids : itemsMap[id] = Null
        /\ \A key \in IndexKeys : \A v \in FieldValues(key) : indexFind(key, v) = <<>>

\* C14: add(entity, source) appends the entity at the end of the sequence, sets
\* the map entry of the entity's string-coerced identity to the entity, emits
\* exactly one itemAdded event with the entity and the source ("user" when none
\* is given), returns the entity, and leaves every other position of the
\* sequence and every other map entry as they were.
C14_AddAppendsMapsEmitsReturns ==
    [][\A e \in Entities, s \in TopSources :
        Add(e, s, <<>>) =>
            /\ Len(items') = Len(items) + 1
            /\ items'[Len(items')] = e
            /\ \A i \in 1..Len(items) : items'[i] = items[i]
            /\ itemsMap'[KeyField(e).v] = e
            /\ \A id \in Ids \ {KeyField(e).v} : itemsMap'[id] = itemsMap[id]
            /\ \A k \in Subs :
                  /\ Len(observed'[k]) = 1
                  /\ observed'[k][1].kind = "itemAdded"
                  /\ observed'[k][1].entity = e
                  /\ observed'[k][1].source = (IF s = Undefined THEN "user" ELSE s)
            /\ ret'.val = e]_vars

C14_Witness ==
    /\ ret.op = "add"
    /\ ret.source = Undefined
    /\ ret.val = ret.arg
    /\ Len(items) = MaxOps
    /\ items[Len(items)] = ret.arg
    /\ \E i \in 1..(Len(items) - 1) :
          items[i] # ret.arg /\ getEntityId(items[i]) = getEntityId(ret.arg)
    /\ \E id \in Ids : id # getEntityId(ret.arg) /\ itemsMap[id] # Null
    /\ \A k \in Subs : Len(observed[k]) = 1 /\ observed[k][1].source = "user"

\* C16 as stated: no two entries of the sequence have the same identity.
C16_NoDuplicateIdentities ==
    \A i, j \in 1..Len(items) : i # j => getEntityId(items[i]) # getEntityId(items[j])

\* C20 as stated: no entity's disposer has run more than once, and no entity
\* whose disposer has run is in the sequence or the map.
C20_DisposedOnceAndGone ==
    \A e \in Entities :
        /\ disposed[e] <= 1
        /\ disposed[e] > 0 => (~InSeq(items, e) /\ itemsMap[getEntityId(e)] # e)

\* C15: getKeyIndex(key) makes an index only when the field has none and gives
\* the field's one index otherwise; the index of a field stays the same
\* instance through every call until destroy; and making an index changes
\* neither the sequence nor the map.
C15_OneIndexPerFieldUntilDestroy ==
    [][/\ \A key \in IndexKeys :
            GetKeyIndex(key) =>
                /\ queryIndexes[key] # Null => queryIndexes'[key] = queryIndexes[key]
                /\ queryIndexes[key] = Null =>
                      /\ queryIndexes'[key] # Null
                      /\ \A other \in IndexKeys \ {key} : queryIndexes'[key] # queryIndexes[other]
                /\ \A other \in IndexKeys \ {key} : queryIndexes'[other] = queryIndexes[other]
                /\ items' = items
                /\ itemsMap' = itemsMap
       /\ \A key \in IndexKeys :
            (queryIndexes[key] # Null /\ ~Destroyed) => queryIndexes'[key] = queryIndexes[key]]_vars

C15_Witness ==
    /\ queryIndexes["group"] # Null
    /\ queryIndexes["key"] # Null
    /\ queryIndexes["group"] # queryIndexes["key"]
    /\ Len(items) >= 2
    /\ \E id \in Ids : itemsMap[id] = Null
    /\ Destroyed

\* C17: the memoized findById(id) is always the uncached result: null when the
\* map has no entry for id or the access validator (if any) rejects the entry,
\* the entry otherwise; and a value the memo still holds as current is that
\* result too, whatever add, removeById or change of accessibility came since
\* it was computed.
C17_MemoizedFindByIdIsCurrent ==
    \A id \in Ids :
        LET reference == IF itemsMap[id] = Null THEN Null
                         ELSE IF hasValidator /\ ~accessible[itemsMap[id]] THEN Null
                         ELSE itemsMap[id]
        IN /\ findById(id) = reference
           /\ ~fbDirty[id] => fbValue[id] = reference

C17_Witness ==
    /\ ret.op = "findById"
    /\ ret.val # Null
    /\ itemsMap[ret.arg] = ret.val
    /\ hasValidator
    /\ ~accessible[ret.val]
    /\ fbDirty[ret.arg]
    /\ findById(ret.arg) = Null
    /\ Len(items) >= 2

\* C18 as stated: getKeyIndex(key).find(v) returns exactly the entities of the store
\* that the access validator (if any) accepts and whose current value of the
\* field is v, each once, in the order in which the store holds them.
C18_FindIsAccessibleHoldersInStoreOrder ==
    \A key \in IndexKeys : \A v \in FieldValues(key) :
        LET found == indexFind(key, v)
        IN /\ {found[i] : i \in 1..Len(found)} =
                  {e \in Stored : Accepted(e) /\ FieldValue(e, key) = v}
           /\ \A a, b \in 1..Len(found) :
                  a < b => /\ found[a] # found[b]
                           /\ IndexOf(items, found[a]) < IndexOf(items, found[b])

\* the sequence of the entities the access validator (if any) accepts
AccessibleSequence == getSourceForQueryInput(items, hasValidator, accessible)

\* an add or removeById that leaves the accessible sequence as it was changes
\* neither the root collection, nor whether the next read replaces it, nor any
\* cached query result; the root collection is replaced only by an accessible
\* sequence that differs from it in some element; and without a validator the
\* root collection is the items array, which is never replaced and whose
\* content is that of the sequence
RootKeptWhileSequenceSame ==
    /\ (items' # items /\ AccessibleSequence' = AccessibleSequence) =>
          /\ rootValue' = rootValue
          /\ rootReplaced' = rootReplaced
          /\ qDirty' = qDirty
          /\ qValue' = qValue
          /\ \A i \in 1..Len(queries) : queryAll(i)' = queryAll(i)
    /\ (hasValidator /\ rootValue' # rootValue) =>
          /\ rootReplaced
          /\ rootValue' = AccessibleSequence
          /\ \/ Len(rootValue') # Len(rootValue)
             \/ \E i \in 1..Len(rootValue') : rootValue'[i] # rootValue[i]
    /\ ~hasValidator =>
          /\ ~rootReplaced
          /\ getRootSource = items
          /\ rootValue' = items'

\* whether the step changes the element sequence of the root collection: a
\* read replaces it, or (without a validator) the items array changes in place
RootSequenceChanges == rootReplaced \/ (~hasValidator /\ items' # items)

ReadFieldChanges(i) ==
    /\ queries[i][1].kind = "filter"
    /\ \E k \in 1..Len(rootValue) : group'[rootValue[k]] # group[rootValue[k]]

====
